---- MODULE Spec2Model ----
(***************************************************************************)
(* State-machine model of the 3D robot-arm simulator: the level engine     *)
(* (LevelManager), the object registry and grasp logic (ObjectManager,     *)
(* RobotArmSimulator.updateJoints) and the progress store (Storage).       *)
(*                                                                         *)
(* Units.  Positions and target radii are in millimetres (1 length unit of *)
(* the program = 1000), so that squared distances stay inside 32 bits.     *)
(* Object sizes are in millimetres; gripper widths are in micrometres.     *)
(* Times are in whole seconds.                                             *)
(***************************************************************************)
EXTENDS Integers, Sequences, FiniteSets, TLC

VARIABLES
    objects,         \* ObjectManager.objects: the registry, in insertion order
    nextId,          \* ObjectManager.nextId
    attachedObject,  \* ObjectManager.attachedObject: an object id, or NoObject
    gripperAngle,    \* RobotArmSimulator.angles.gripper, in degrees
    gripperPos,      \* world position of the gripper center (getGripperCenterPosition)
    currentLevel,    \* LevelManager.currentLevel: a level id, or NoLevel
    isActive,        \* LevelManager.isActive
    elapsedTime,     \* LevelManager.elapsedTime
    targetMeshes,    \* LevelManager.targetMeshes: the target descriptors
    targetStates,    \* LevelManager.targetStates
    obstacleMeshes,  \* LevelManager.obstacleMeshes
    moves,           \* number of carries since the last load (bounds the model)
    stored,          \* localStorage['3D_ARM_SIMULATOR']: <<>> or <<record>>
    saves,           \* number of saveProgress calls
    frames,          \* number of animate calls (bounds the model)
    steps,           \* number of physics steps (bounds the model)
    lastStep,        \* the arguments of the last ObjectManager.update call
    robotSimulator,  \* App.robotSimulator: the number of the instance, or NoSimulator
    activeScreen,    \* the screen element that was last made active
    timers,          \* the pending setTimeout callbacks of handleLevelCompletion
    loads,           \* number of startLevel calls
    lastResult       \* the last call that returned a value, and the value; reset
                     \* by every call that returns none

vars == <<objects, nextId, attachedObject, gripperAngle, gripperPos,
          currentLevel, isActive, elapsedTime, targetMeshes, targetStates,
          obstacleMeshes, moves, stored, saves, frames, steps, lastStep,
          robotSimulator, activeScreen, timers, loads, lastResult>>

omVars    == <<objects, nextId, attachedObject>>
armVars   == <<gripperAngle, gripperPos>>
levelVars == <<currentLevel, isActive, elapsedTime, targetMeshes, targetStates,
               obstacleMeshes>>
storeVars == <<stored, saves>>
stepVars  == <<frames, steps, lastStep>>
appVars   == <<robotSimulator, activeScreen, timers, loads>>

----------------------------------------------------------------------------
(* JavaScript values *)

\* null for LevelManager.currentLevel
NoLevel == -1

\* null for ObjectManager.attachedObject (ids start at 1)
NoObject == 0

\* null for App.robotSimulator (instances are numbered from 1)
NoSimulator == 0

\* a || b on numbers: undefined, null, NaN and 0 are all falsy and modelled as 0
JsOr(a, b) == IF a # 0 THEN a ELSE b

\* vectors
Vec(x, y, z) == <<x, y, z>>
AddVec(p, q) == <<p[1] + q[1], p[2] + q[2], p[3] + q[3]>>
DistSq(p, q) ==
    (p[1] - q[1]) * (p[1] - q[1]) + (p[2] - q[2]) * (p[2] - q[2])
        + (p[3] - q[3]) * (p[3] - q[3])

\* p.distanceTo(q) < r, for r >= 0
DistanceLess(p, q, r) == DistSq(p, q) < r * r

\* String.prototype.toLowerCase on the color strings in use
ToLowerCase(s) ==
    CASE s = "#FF6B35" -> "#ff6b35"
      [] s = "#FF4757" -> "#ff4757"
      [] OTHER -> s

\* '#' + material.color.getHexString(): six lower-case hex digits
ColorHex(c) == ToLowerCase(c)

Range(s) == {s[i] : i \in DOMAIN s}

----------------------------------------------------------------------------
(* Level table *)

LObj(type, pos, color, size) ==
    [type |-> type, position |-> pos, color |-> color, size |-> size]

\* requiredColor "" stands for an absent requiredColor
LTgt(pos, size, accepts, requiredColor, stackable) ==
    [position |-> pos, size |-> size, accepts |-> accepts,
     requiredColor |-> requiredColor, stackable |-> stackable]

LObs(pos, size) == [position |-> pos, size |-> size]

\* timeLimit 0 stands for null; stars <<>> for an absent stars field
Level(id, objs, tgts, obs, timeLimit, stars) ==
    [id |-> id, objects |-> objs, targets |-> tgts, obstacles |-> obs,
     timeLimit |-> timeLimit, stars |-> stars]

LEVELS == <<
    Level(0,
        << LObj("cube", Vec(2000, 150, 0), "#ff6b35", 300) >>,
        << LTgt(Vec(-2000, 150, 0), 500, {"cube"}, "", FALSE) >>,
        << >>, 0, << >>),
    Level(1,
        << LObj("cube", Vec(1500, 150, 1000), "#ff6b35", 300) >>,
        << LTgt(Vec(-1500, 150, -1000), 500, {"cube"}, "", FALSE) >>,
        << >>, 120, <<60, 90, 120>>),
    Level(2,
        << LObj("cube", Vec(2000, 150, 0), "#ff6b35", 300),
           LObj("cube", Vec(2000, 150, 2000), "#ff4757", 300) >>,
        << LTgt(Vec(-2000, 150, 0), 500, {"cube"}, "", FALSE),
           LTgt(Vec(-2000, 150, 2000), 500, {"cube"}, "", FALSE) >>,
        << >>, 180, <<90, 130, 180>>),
    Level(3,
        << LObj("sphere", Vec(2500, 200, 0), "#ffa502", 200) >>,
        << LTgt(Vec(-2500, 200, 0), 300, {"sphere"}, "", FALSE) >>,
        << >>, 90, <<45, 65, 90>>),
    Level(4,
        << LObj("cube", Vec(1000, 150, 1000), "#ff6b35", 300),
           LObj("cube", Vec(2000, 150, -1000), "#ff4757", 300),
           LObj("cube", Vec(1500, 150, 0), "#ff6b35", 300) >>,
        << LTgt(Vec(-2000, 150, 1000), 500, {"cube"}, "#ff6b35", FALSE),
           LTgt(Vec(-1000, 150, 1000), 500, {"cube"}, "#ff6b35", FALSE),
           LTgt(Vec(-2000, 150, -1000), 500, {"cube"}, "#ff4757", FALSE) >>,
        << >>, 200, <<100, 150, 200>>),
    Level(5,
        << LObj("cube", Vec(2000, 150, 1000), "#ff6b35", 300),
           LObj("sphere", Vec(2000, 200, -1000), "#ff4757", 200),
           LObj("cube", Vec(2000, 150, 0), "#ffa502", 300),
           LObj("sphere", Vec(1000, 200, 0), "#ff6348", 200) >>,
        << LTgt(Vec(-2000, 150, 1000), 500, {"cube"}, "", FALSE),
           LTgt(Vec(-2000, 150, 0), 500, {"cube"}, "", FALSE),
           LTgt(Vec(-2000, 200, -1000), 400, {"sphere"}, "", FALSE),
           LTgt(Vec(-1000, 200, -1000), 400, {"sphere"}, "", FALSE) >>,
        << >>, 240, <<120, 180, 240>>),
    Level(6,
        << LObj("cube", Vec(2000, 150, 0), "#ff6b35", 300),
           LObj("cube", Vec(2000, 150, 1000), "#ff4757", 300),
           LObj("cube", Vec(2000, 150, -1000), "#ffa502", 300) >>,
        << LTgt(Vec(-2000, 150, 0), 500, {"cube"}, "", TRUE),
           LTgt(Vec(-2000, 450, 0), 500, {"cube"}, "", TRUE),
           LTgt(Vec(-2000, 750, 0), 500, {"cube"}, "", TRUE) >>,
        << >>, 300, <<150, 225, 300>>),
    Level(7,
        << LObj("cube", Vec(3000, 150, 0), "#ff6b35", 300) >>,
        << LTgt(Vec(-3000, 150, 0), 500, {"cube"}, "", FALSE) >>,
        << LObs(Vec(1000, 1000, 0), 500), LObs(Vec(-1000, 1500, 0), 500) >>,
        180, <<90, 135, 180>>),
    Level(8,
        << LObj("cube", Vec(2500, 150, 1500), "#ff6b35", 300),
           LObj("sphere", Vec(2500, 200, -1500), "#ff4757", 200),
           LObj("cube", Vec(1500, 150, 0), "#ff6b35", 300),
           LObj("sphere", Vec(2000, 200, 1000), "#ff4757", 200) >>,
        << LTgt(Vec(-2000, 150, 1000), 500, {"cube"}, "", FALSE),
           LTgt(Vec(-2000, 150, 0), 500, {"cube"}, "", FALSE),
           LTgt(Vec(-2000, 200, -1000), 400, {"sphere"}, "", FALSE),
           LTgt(Vec(-1000, 200, -1000), 400, {"sphere"}, "", FALSE) >>,
        << >>, 120, <<60, 90, 120>>),
    Level(9,
        << LObj("cube", Vec(2000, 150, 2000), "#ff6b35", 300),
           LObj("sphere", Vec(2000, 200, 1000), "#ff6b35", 200),
           LObj("cube", Vec(2000, 150, 0), "#ff4757", 300),
           LObj("sphere", Vec(2000, 200, -1000), "#ff4757", 200),
           LObj("cube", Vec(2000, 150, -2000), "#ffa502", 300) >>,
        << LTgt(Vec(-2000, 150, 2000), 500, {"cube"}, "#ff6b35", FALSE),
           LTgt(Vec(-2000, 200, 1000), 400, {"sphere"}, "#ff6b35", FALSE),
           LTgt(Vec(-2000, 150, 0), 500, {"cube"}, "#ff4757", FALSE),
           LTgt(Vec(-2000, 200, -1000), 400, {"sphere"}, "#ff4757", FALSE),
           LTgt(Vec(-2000, 150, -2000), 500, {"cube"}, "#ffa502", FALSE) >>,
        << >>, 300, <<150, 225, 300>>),
    Level(10,
        << LObj("cube", Vec(3000, 150, 2000), "#ff6b35", 300),
           LObj("sphere", Vec(3000, 200, 1000), "#ff4757", 200),
           LObj("cube", Vec(3000, 150, 0), "#ffa502", 300),
           LObj("sphere", Vec(3000, 200, -1000), "#ff6348", 200),
           LObj("cube", Vec(3000, 150, -2000), "#ff6b35", 300),
           LObj("sphere", Vec(2000, 200, 0), "#ff4757", 200) >>,
        << LTgt(Vec(-3000, 150, 1000), 500, {"cube"}, "#ff6b35", TRUE),
           LTgt(Vec(-3000, 450, 1000), 500, {"cube"}, "#ff6b35", TRUE),
           LTgt(Vec(-3000, 150, 0), 500, {"cube"}, "#ffa502", FALSE),
           LTgt(Vec(-3000, 200, -1000), 400, {"sphere"}, "#ff4757", FALSE),
           LTgt(Vec(-2000, 200, -1000), 400, {"sphere"}, "#ff4757", FALSE),
           LTgt(Vec(-3000, 200, -2000), 400, {"sphere"}, "#ff6348", FALSE) >>,
        << >>, 360, <<180, 270, 360>>)
>>

\* LEVELS.find(level => level.id === id): the index of the first match, 0 for
\* undefined
getLevelById(id) ==
    IF \E i \in DOMAIN LEVELS : LEVELS[i].id = id
    THEN CHOOSE i \in DOMAIN LEVELS :
            /\ LEVELS[i].id = id
            /\ \A j \in DOMAIN LEVELS : LEVELS[j].id = id => i <= j
    ELSE 0

\* the descriptor that currentLevel refers to
LevelOf(id) == LEVELS[getLevelById(id)]

----------------------------------------------------------------------------
(* Bounds of the model *)

\* loadLevel is taken only while nextId <= MaxNextId (nextId never resets)
MaxNextId == 4

\* carries (updateAttachedObject calls that move an object) per load
MaxMoves == 2

\* saveProgress calls per run
MaxSaves == 3

\* largest completion time passed to saveProgress
MaxSaveTime == 2

\* physics steps per run
MaxSteps == 3

\* frames (animate calls) per run
MaxFrames == 4

\* in the frame loop, loadLevel succeeds only while nextId is at most this
MaxFrameNextId == 5

----------------------------------------------------------------------------
(* ObjectManager *)

\* the mesh spawnObject builds: userData plus what the geometry keeps of size
NewObject(id, type, pos, color, size) ==
    [id |-> id, type |-> type, color |-> color, size |-> size,
     position |-> pos, velocity |-> Vec(0, 0, 0), onFloor |-> FALSE,
     pickable |-> TRUE, isStatic |-> FALSE, radius |-> size \div 2]

\* spawnObject: the registry after the call (the caller advances nextId)
spawnObject(objs, id, type, pos, color, size) ==
    Append(objs, NewObject(id, type, pos, color, size))

\* index in the registry of the object with this id, 0 if there is none
IndexOf(objs, id) ==
    IF \E i \in DOMAIN objs : objs[i].id = id
    THEN CHOOSE i \in DOMAIN objs : objs[i].id = id
    ELSE 0

\* geometry.parameters.width: BoxGeometry only (cube and unknown types)
GeomWidth(o) == IF o.type \in {"sphere", "cylinder"} THEN 0 ELSE o.size

\* geometry.parameters.radius * 2: SphereGeometry only; a CylinderGeometry has
\* radiusTop and radiusBottom, so radius is undefined and the product is NaN
GeomDiameter(o) == IF o.type = "sphere" THEN 2 * (o.size \div 2) ELSE 0

\* RobotArmSimulator.spawnTestObjects: the registry after init()
TestObjects ==
    spawnObject(
        spawnObject(
            spawnObject(<< >>, 1, "cube", Vec(2000, 150, 0), "#ff6b35", 300),
            2, "sphere", Vec(-2000, 200, 1000), "#ff4757", 200),
        3, "cube", Vec(0, 150, -2000), "#ffa502", 300)

\* updateAttachedObject: the attached object copies the gripper position and is
\* lifted by 0.3
AttachedOffset == Vec(0, 300, 0)

updateAttachedObjectIn(objs, att, gpos) ==
    IF att # NoObject /\ IndexOf(objs, att) # 0
    THEN [objs EXCEPT ![IndexOf(objs, att)].position = AddVec(gpos, AttachedOffset)]
    ELSE objs

\* releaseObject: the registry after the call (attachedObject becomes null)
releaseObjectIn(objs, att) ==
    IF att # NoObject /\ IndexOf(objs, att) # 0
    THEN [objs EXCEPT ![IndexOf(objs, att)].onFloor = FALSE,
                      ![IndexOf(objs, att)].velocity = Vec(0, 0, 0)]
    ELSE objs

----------------------------------------------------------------------------
(* LevelManager *)

\* a call (op, with its argument) and the value it returned; the fields a
\* returned object lacks are "" and 0
Result(op, arg, status, reason, time, stars) ==
    [op |-> op, arg |-> arg, status |-> status, reason |-> reason,
     time |-> time, stars |-> stars]

NoResult == Result("none", 0, "", "", 0, 0)

\* createTarget: one state per target
EmptyState == [filled |-> FALSE, object |-> NoObject]

\* loadLevel's spawn loop over levelData.objects, from an empty registry
RECURSIVE SpawnLevelObjects(_, _, _)
SpawnLevelObjects(decl, k, nid) ==
    IF k = 0 THEN << >>
    ELSE spawnObject(SpawnLevelObjects(decl, k - 1, nid), nid + k - 1,
                     decl[k].type, decl[k].position, decl[k].color, decl[k].size)

\* the inner loop of updateTargetStates for one object: the first target (in
\* index order, from i on) that the object is inside, whose accepted kinds
\* include it and whose required color it has; 0 when no target qualifies.
\* A kind mismatch or a color mismatch moves on to the next target.
RECURSIVE FirstTarget(_, _, _)
FirstTarget(tgts, o, i) ==
    IF i > Len(tgts) THEN 0
    ELSE IF /\ DistanceLess(o.position, tgts[i].position, tgts[i].size)
            /\ o.type \in tgts[i].accepts
            /\ (tgts[i].requiredColor # ""
                  => ToLowerCase(ColorHex(o.color)) = ToLowerCase(tgts[i].requiredColor))
         THEN i
         ELSE FirstTarget(tgts, o, i + 1)

\* updateTargetStates: every state reset, then each object in registry order
\* marks the first target it qualifies for and stops (break)
RECURSIVE updateTargetStates(_, _, _)
updateTargetStates(tgts, objs, k) ==
    IF k = 0 THEN [i \in DOMAIN tgts |-> EmptyState]
    ELSE LET before == updateTargetStates(tgts, objs, k - 1)
             i == FirstTarget(tgts, objs[k], 1)
         IN  IF i = 0 THEN before
             ELSE [before EXCEPT ![i] = [filled |-> TRUE, object |-> objs[k].id]]

\* faulty variant of checkWinCondition: one filled target is enough
checkWinConditionAny(states) == \E i \in DOMAIN states : states[i].filled

\* checkWinCondition, on the states updateTargetStates left
checkWinCondition(states) == \A i \in DOMAIN states : states[i].filled

\* faulty variant of calculateStars: strict comparisons
calculateStarsStrict(lvl, time) ==
    IF lvl = NoLevel \/ Len(LevelOf(lvl).stars) = 0 THEN 1
    ELSE LET thresholds == LevelOf(lvl).stars
         IN  IF time < thresholds[1] THEN 3
             ELSE IF time < thresholds[2] THEN 2
             ELSE 1

\* calculateStars
calculateStars(lvl, time) ==
    IF lvl = NoLevel \/ Len(LevelOf(lvl).stars) = 0 THEN 1
    ELSE LET thresholds == LevelOf(lvl).stars
         IN  IF time <= thresholds[1] THEN 3
             ELSE IF time <= thresholds[2] THEN 2
             ELSE IF time <= thresholds[3] THEN 1
             ELSE 1

\* the timeout test of update(): a time limit exists and is exceeded
TimedOut(lvl, time) ==
    LevelOf(lvl).timeLimit # 0 /\ time > LevelOf(lvl).timeLimit

\* faulty variant of updateResult: the win check runs before the timeout check
updateResultWinFirst(lvl, time, states) ==
    IF checkWinCondition(states)
    THEN Result("update", 0, "completed", "", time, calculateStars(lvl, time))
    ELSE IF TimedOut(lvl, time) THEN Result("update", 0, "failed", "timeout", 0, 0)
         ELSE Result("update", 0, "playing", "", time, 0)

\* what update() returns once it is past its early return
updateResult(lvl, time, states) ==
    IF TimedOut(lvl, time) THEN Result("update", 0, "failed", "timeout", 0, 0)
    ELSE IF checkWinCondition(states)
         THEN Result("update", 0, "completed", "", time, calculateStars(lvl, time))
         ELSE Result("update", 0, "playing", "", time, 0)

\* The LevelManager and ObjectManager fields as one record
LevelState(lvl, active, elapsed, tgts, states, obs, objs, nid, att) ==
    [currentLevel |-> lvl, isActive |-> active, elapsedTime |-> elapsed,
     targetMeshes |-> tgts, targetStates |-> states, obstacleMeshes |-> obs,
     objects |-> objs, nextId |-> nid, attachedObject |-> att]

CurrentState ==
    LevelState(currentLevel, isActive, elapsedTime, targetMeshes, targetStates,
               obstacleMeshes, objects, nextId, attachedObject)

\* faulty variant of loadLevelFound: the registry is not cleared
loadLevelFoundKeepObjects(id) ==
    LET lvl == LevelOf(id)
    IN  LevelState(id, TRUE, 0, lvl.targets,
                   [i \in DOMAIN lvl.targets |-> EmptyState], lvl.obstacles,
                   objects \o SpawnLevelObjects(lvl.objects, Len(lvl.objects), nextId),
                   nextId + Len(lvl.objects), attachedObject)

\* loadLevel past its lookup: the level becomes current and active, the time
\* restarts, clearAll/clearTargets/clearObstacles run, then the declared
\* objects, targets and obstacles are created
loadLevelFound(id) ==
    LET lvl == LevelOf(id)
    IN  LevelState(id, TRUE, 0, lvl.targets,
                   [i \in DOMAIN lvl.targets |-> EmptyState], lvl.obstacles,
                   SpawnLevelObjects(lvl.objects, Len(lvl.objects), nextId),
                   nextId + Len(lvl.objects), NoObject)

\* faulty variant of loadLevelOutcome: the scene is cleared before the lookup
loadLevelOutcomeClearFirst(id) ==
    IF getLevelById(id) = 0
    THEN [ok |-> FALSE,
          st |-> [CurrentState EXCEPT !.objects = << >>, !.attachedObject = NoObject,
                                      !.targetMeshes = << >>, !.targetStates = << >>,
                                      !.obstacleMeshes = << >>]]
    ELSE [ok |-> TRUE, st |-> loadLevelFound(id)]

\* loadLevel(levelId): the returned value and the fields after the call; an id
\* that getLevelById does not find returns false before anything is assigned
loadLevelOutcome(id) ==
    IF getLevelById(id) = 0
    THEN [ok |-> FALSE, st |-> CurrentState]
    ELSE [ok |-> TRUE, st |-> loadLevelFound(id)]

\* faulty variant of exitLevelOutcome: the registry is not cleared
exitLevelOutcomeKeepObjects ==
    LevelState(NoLevel, FALSE, elapsedTime, << >>, << >>, << >>, objects, nextId,
               attachedObject)

\* exitLevel: the fields after the call
exitLevelOutcome ==
    LevelState(NoLevel, FALSE, elapsedTime, << >>, << >>, << >>, << >>, nextId,
               NoObject)

\* the assignment of a field record to the variables
Assign(st) ==
    /\ currentLevel' = st.currentLevel
    /\ isActive' = st.isActive
    /\ elapsedTime' = st.elapsedTime
    /\ targetMeshes' = st.targetMeshes
    /\ targetStates' = st.targetStates
    /\ obstacleMeshes' = st.obstacleMeshes
    /\ objects' = st.objects
    /\ nextId' = st.nextId
    /\ attachedObject' = st.attachedObject

---------------------------------------------------------------------------------------------------------------------------------------------------
(* Inputs of the level engine *)

\* ids passed to loadLevel: every level of the table and an unknown id
LoadIds == (0 .. 10) \cup {11}

\* values of (performance.now() - levelStartTime) / 1000 at which update() is
\* called: early, on the time limit and just past it
TimeSamples(lvl) ==
    LET l == LevelOf(lvl)
    IN  {1} \cup (IF l.timeLimit # 0 THEN {l.timeLimit, l.timeLimit + 1} ELSE {})

\* the same, on and just past every star threshold as well
StarTimeSamples(lvl) ==
    LET l == LevelOf(lvl)
    IN  TimeSamples(lvl) \cup {l.stars[i] : i \in DOMAIN l.stars}
                         \cup {l.stars[i] + 1 : i \in DOMAIN l.stars}

\* displacements from a target's center at which a carried object is put:
\* on the center, on the acceptance radius and just inside it (first target),
\* and half-way up to
\* the next target of a stack (first target, when stackable)
PlaceOffsets(tgts, i) ==
    {Vec(0, 0, 0)}
        \cup (IF i = 1 THEN {Vec(tgts[i].size, 0, 0), Vec(tgts[i].size - 1, 0, 0)}
                     ELSE {})
        \cup (IF i = 1 /\ tgts[i].stackable THEN {Vec(0, 150, 0)} ELSE {})

\* gripper positions that put the attached object at those places
CarryPoints(tgts) ==
    UNION {{AddVec(AddVec(tgts[i].position, d), Vec(0, -300, 0)) :
                d \in PlaceOffsets(tgts, i)} : i \in DOMAIN tgts}

----------------------------------------------------------------------------
(* Actions of the level engine *)

\* LevelManager.loadLevel(id), while nextId is at most bound
loadLevelBounded(id, bound) ==
    /\ UNCHANGED appVars
    /\ loadLevelOutcome(id).ok => nextId <= bound
    /\ Assign(loadLevelOutcome(id).st)
    /\ moves' = IF loadLevelOutcome(id).ok THEN 0 ELSE moves
    /\ lastResult' = Result("loadLevel", id,
                            IF loadLevelOutcome(id).ok THEN "true" ELSE "false",
                            "", 0, 0)
    /\ UNCHANGED <<armVars, stepVars, storeVars>>

\* LevelManager.loadLevel(id)
loadLevel(id) == loadLevelBounded(id, MaxNextId)

\* LevelManager.exitLevel(); it returns nothing, and the call itself is recorded
exitLevel ==
    /\ UNCHANGED appVars
    /\ Assign(exitLevelOutcome)
    /\ lastResult' = Result("exitLevel", 0, "", "", 0, 0)
    /\ UNCHANGED <<armVars, stepVars, storeVars, moves>>

\* LevelManager.update(), called when performance.now() is t seconds past
\* levelStartTime (time does not run backwards)
update(t) ==
    /\ UNCHANGED appVars
    /\ t >= elapsedTime
    /\ IF ~isActive \/ currentLevel = NoLevel
       THEN /\ lastResult' = Result("update", 0, "null", "", 0, 0)
            /\ UNCHANGED <<elapsedTime, targetStates>>
       ELSE /\ elapsedTime' = t
            /\ targetStates' =
                 IF TimedOut(currentLevel, t) THEN targetStates
                 ELSE updateTargetStates(targetMeshes, objects, Len(objects))
            /\ lastResult' = updateResult(currentLevel, t, targetStates')
    /\ UNCHANGED <<currentLevel, isActive, targetMeshes, obstacleMeshes>>
    /\ UNCHANGED <<omVars, armVars, stepVars, storeVars, moves>>

\* LevelManager.calculateStars()
calculateStarsCall ==
    /\ UNCHANGED appVars
    /\ lastResult' = Result("calculateStars", 0, "", "", elapsedTime,
                            calculateStars(currentLevel, elapsedTime))
    /\ UNCHANGED <<omVars, armVars, stepVars, levelVars, storeVars, moves>>

\* ObjectManager.attachToGripper(object, attachPoint), called as updateJoints
\* calls it: with a registered object while nothing is attached
attachToGripper(id) ==
    /\ UNCHANGED appVars
    /\ attachedObject = NoObject
    /\ IndexOf(objects, id) # 0
    /\ moves < MaxMoves
    /\ attachedObject' = id
    /\ lastResult' = NoResult
    /\ UNCHANGED <<objects, nextId, armVars, stepVars, levelVars, storeVars, moves>>

\* ObjectManager.updateAttachedObject(gripperWorldPosition)
updateAttachedObject(p) ==
    /\ UNCHANGED appVars
    /\ attachedObject # NoObject
    /\ moves < MaxMoves
    /\ objects' = updateAttachedObjectIn(objects, attachedObject, p)
    /\ moves' = moves + 1
    /\ lastResult' = NoResult
    /\ UNCHANGED <<nextId, attachedObject, armVars, stepVars, levelVars, storeVars>>

\* ObjectManager.releaseObject()
releaseObject ==
    /\ UNCHANGED appVars
    /\ attachedObject # NoObject
    /\ objects' = releaseObjectIn(objects, attachedObject)
    /\ attachedObject' = NoObject
    /\ lastResult' = NoResult
    /\ UNCHANGED <<nextId, armVars, stepVars, levelVars, storeVars, moves>>

----------------------------------------------------------------------------
(* Specification of the level engine *)

\* the gripper center in the arm's rest pose
GripperHome == Vec(0, 4380, 0)

\* the fields of a RobotArmSimulator after init(): test objects spawned, no
\* level loaded
NewSimulator ==
    /\ objects = TestObjects
    /\ nextId = Len(TestObjects) + 1
    /\ attachedObject = NoObject
    /\ gripperAngle = 0
    /\ gripperPos = GripperHome
    /\ currentLevel = NoLevel
    /\ isActive = FALSE
    /\ elapsedTime = 0
    /\ targetMeshes = << >>
    /\ targetStates = << >>
    /\ obstacleMeshes = << >>
    /\ moves = 0
    /\ saves = 0
    /\ frames = 0
    /\ steps = 0
    /\ lastStep = [dt |-> 0, armColliders |-> << >>]
    /\ lastResult = NoResult

\* a simulator after init(), on the simulator screen, nothing scheduled
InitSimulator ==
    /\ NewSimulator
    /\ robotSimulator = 1
    /\ activeScreen = "simulatorScreen"
    /\ timers = {}
    /\ loads = 0

\* the simulator after init(), with nothing stored
Init == InitSimulator /\ stored = << >>

Next ==
    \/ \E id \in LoadIds : loadLevel(id)
    \/ exitLevel
    \/ \E t \in (IF currentLevel = NoLevel THEN {1} ELSE TimeSamples(currentLevel)) :
          update(t)
    \/ \E id \in {objects[i].id : i \in DOMAIN objects} : attachToGripper(id)
    \/ \E p \in CarryPoints(targetMeshes) : updateAttachedObject(p)
    \/ releaseObject

Spec == Init /\ [][Next]_vars

----------------------------------------------------------------------------
(* Specification of the star rating: every level at every star threshold;  *)
(* objects are carried in the levels that have a single target             *)

NextStars ==
    \/ \E id \in LoadIds : loadLevel(id)
    \/ \E t \in (IF currentLevel = NoLevel THEN {1} ELSE StarTimeSamples(currentLevel)) :
          update(t)
    \/ calculateStarsCall
    \/ \E id \in {objects[i].id : i \in DOMAIN objects} :
          Len(targetMeshes) = 1 /\ attachToGripper(id)
    \/ \E p \in CarryPoints(targetMeshes) :
          Len(targetMeshes) = 1 /\ updateAttachedObject(p)
    \/ releaseObject

SpecStars == Init /\ [][NextStars]_vars

----------------------------------------------------------------------------
(* Claims about the level engine *)

\* update() has just returned for a loaded, active level
UpdateReturned ==
    /\ lastResult.op = "update"
    /\ isActive
    /\ currentLevel # NoLevel

\* the level has a time limit and elapsedTime is strictly beyond it
TimeExceeded ==
    /\ LevelOf(currentLevel).timeLimit # 0
    /\ elapsedTime > LevelOf(currentLevel).timeLimit

\* object o lies within target t's acceptance radius, has an accepted shape
\* kind and (when one is required) the required color, case-insensitively
Qualifies(o, t) ==
    /\ DistSq(o.position, t.position) < t.size * t.size
    /\ o.type \in t.accepts
    /\ (t.requiredColor # "" => ToLowerCase(o.color) = ToLowerCase(t.requiredColor))

\* some live object qualifies for target t
Covered(t) == \E k \in DOMAIN objects : Qualifies(objects[k], t)

\* C1: whenever update() is called on an active level with a time limit and the
\* elapsed time is strictly greater than the limit, it returns
\* {status: 'failed', reason: 'timeout'}, never 'completed', even when every
\* target is filled on that frame.
C1_TimeoutPrecedence ==
    (UpdateReturned /\ TimeExceeded)
        => (lastResult.status = "failed" /\ lastResult.reason = "timeout")

\* C1 witness: update() returned failed/timeout although every target has a
\* qualifying object and the previous evaluation had marked every target filled
C1_Witness ==
    /\ UpdateReturned /\ TimeExceeded
    /\ lastResult.status = "failed"
    /\ targetMeshes # << >>
    /\ \A i \in DOMAIN targetMeshes : Covered(targetMeshes[i]) /\ targetStates[i].filled

\* C2: for an active level whose time limit is absent or not exceeded,
\* update() returns 'completed' exactly when every target is filled after the
\* evaluation of that call, and 'playing' otherwise; in Level 1, a cube
\* within 0.5 of the target position makes update() return 'completed'.
C2_CompletedIffAllFilled ==
    (UpdateReturned /\ ~TimeExceeded) =>
        /\ lastResult.status \in {"completed", "playing"}
        /\ lastResult.status = "completed"
              <=> (\A i \in DOMAIN targetStates : targetStates[i].filled)
        /\ (currentLevel = 1 /\ \E k \in DOMAIN objects :
                /\ objects[k].type = "cube"
                /\ DistSq(objects[k].position, Vec(-1500, 150, -1000)) < 500 * 500)
              => lastResult.status = "completed"

\* C2 witness: a level with two targets is reported completed
C2_Witness ==
    /\ UpdateReturned /\ ~TimeExceeded
    /\ lastResult.status = "completed"
    /\ Len(targetStates) = 2

\* C3: after each target-state evaluation, every target for which some live
\* object qualifies is marked filled; one object that qualifies for two
\* overlapping targets fills both.
C3_EveryCoveredTargetFilled ==
    (UpdateReturned /\ ~TimeExceeded) =>
        \A i \in DOMAIN targetMeshes : Covered(targetMeshes[i]) => targetStates[i].filled

\* indices of the live objects that qualify for target t
Qualifiers(t) == {k \in DOMAIN objects : Qualifies(objects[k], t)}

\* C24: after a target-state evaluation, a filled target for which two or more
\* live objects qualify records the first of them in registry (spawn) order.
C24_FirstQualifierRecorded ==
    (UpdateReturned /\ ~TimeExceeded) =>
        \A i \in DOMAIN targetMeshes :
           (targetStates[i].filled /\ Cardinality(Qualifiers(targetMeshes[i])) >= 2)
           => \E k \in Qualifiers(targetMeshes[i]) :
                 /\ targetStates[i].object = objects[k].id
                 /\ \A j \in Qualifiers(targetMeshes[i]) : k <= j

\* C10: loadLevel with an id that is not in the level table returns false and
\* leaves the current level, the active flag, the elapsed time, the live
\* objects, the attached object, the targets and the obstacles as they were.
C10_UnknownLevelNoChange ==
    [][(lastResult'.op = "loadLevel"
          /\ lastResult'.arg \notin {LEVELS[i].id : i \in DOMAIN LEVELS}
          /\ lastResult' # lastResult)
        => /\ lastResult'.status = "false"
           /\ UNCHANGED <<currentLevel, isActive, elapsedTime, objects, nextId,
                          attachedObject, targetMeshes, targetStates,
                          obstacleMeshes>>]_vars

\* C10 witness: loadLevel failed while a level was active, its targets
\* evaluated, and an object attached
C10_Witness ==
    /\ lastResult.op = "loadLevel" /\ lastResult.status = "false"
    /\ isActive /\ currentLevel # NoLevel
    /\ attachedObject # NoObject
    /\ elapsedTime > 0
    /\ \E i \in DOMAIN targetStates : targetStates[i].filled

\* C12: exitLevel from any state leaves the progress store as it was, leaves
\* no live object, target or obstacle and no attached object and clears the
\* current level; update() then returns null until a level is loaded.
C12_ExitDiscards ==
    [][/\ lastResult'.op = "exitLevel"
          => /\ stored' = stored /\ saves' = saves
             /\ objects' = << >> /\ attachedObject' = NoObject
             /\ targetMeshes' = << >> /\ targetStates' = << >>
             /\ obstacleMeshes' = << >>
             /\ currentLevel' = NoLevel
       /\ (lastResult'.op = "update" /\ currentLevel = NoLevel)
          => lastResult'.status = "null"
       /\ (currentLevel = NoLevel /\ currentLevel' # NoLevel)
          => (lastResult'.op = "loadLevel" /\ lastResult'.status = "true")]_vars

\* C12 witness: update() returned null after a level had been loaded and left
C12_Witness ==
    /\ lastResult.op = "update" /\ lastResult.status = "null"
    /\ currentLevel = NoLevel /\ objects = << >>
    /\ nextId > Len(TestObjects) + 1

----------------------------------------------------------------------------
(* Claims about the star rating *)

\* C4: the star count on completion is 3 if time <= t0, else 2 if time <= t1,
\* else 1; it is always 1, 2 or 3, also for a level without star thresholds
\* and for a time above t2.
C4_Stars ==
    (lastResult.op = "calculateStars"
        \/ (lastResult.op = "update" /\ lastResult.status = "completed")) =>
        LET th == IF currentLevel = NoLevel THEN << >> ELSE LevelOf(currentLevel).stars
            time == lastResult.time
        IN  /\ lastResult.stars \in {1, 2, 3}
            /\ lastResult.stars = 3 <=> (th # << >> /\ time <= th[1])
            /\ lastResult.stars = 2 <=> (th # << >> /\ time > th[1] /\ time <= th[2])

\* C4 witness: a level is reported completed with two stars
C4_Witness ==
    /\ lastResult.op = "update" /\ lastResult.status = "completed"
    /\ lastResult.stars = 2

----------------------------------------------------------------------------
(* Storage *)

\* Storage.version
StorageVersion == "1.0"

\* getDefaultData (animations, sandboxScenes and preferences are not modelled)
getDefaultData ==
    [version |-> StorageVersion,
     progress |-> [unlockedLevels |-> <<0>>, completedLevels |-> << >>,
                   levelStars |-> << >>, levelBestTimes |-> << >>]]

\* a text that JSON.parse rejects, and the JSON value null; every other
\* value is an object with the fields version and progress, where version ""
\* and progress NoProgress stand for an absent field
Unparseable == [unparseable |-> TRUE]
JsonNull == [null |-> TRUE]
NoProgress == [absent |-> TRUE]

\* the try block of loadAll: it returns the parsed record, throws (JSON.parse
\* on an unparseable text, parsed.version on null) or falls through
LoadAllTry(st) ==
    IF st = << >> THEN [outcome |-> "falls through", value |-> JsonNull]
    ELSE IF st[1] \in {Unparseable, JsonNull}
    THEN [outcome |-> "throws", value |-> JsonNull]
    ELSE IF st[1].version = StorageVersion
    THEN [outcome |-> "returns", value |-> st[1]]
    ELSE [outcome |-> "falls through", value |-> JsonNull]

\* faulty variant of loadAll: a parsed object is returned whatever its version
loadAllAnyVersion(st) ==
    IF st # << >> /\ st[1] \notin {Unparseable, JsonNull} THEN st[1]
    ELSE getDefaultData

\* loadAll: the stored record when there is one of this version, else the
\* default record; the catch block swallows what the try block throws
loadAll(st) ==
    IF LoadAllTry(st).outcome = "returns" THEN LoadAllTry(st).value
    ELSE getDefaultData

\* saveAll: what localStorage holds afterwards (setItem succeeds)
saveAll(data) == << [data EXCEPT !.version = StorageVersion] >>

\* map[key] of a JavaScript object holding numbers: undefined reads as falsy
GetNum(map, key) == IF key \in DOMAIN map THEN map[key] ELSE 0

\* map[key] = value
PutNum(map, key, value) ==
    [k \in DOMAIN map \cup {key} |-> IF k = key THEN value ELSE map[k]]

\* Array.prototype.includes
Includes(seq, x) == \E i \in DOMAIN seq : seq[i] = x

\* faulty variant of saveProgressData: the star count is stored unconditionally
saveProgressDataAlwaysStars(data, levelId, stars, time) ==
    LET pr == data.progress
        ns == PutNum(pr.levelStars, levelId, stars)
        nt == IF GetNum(pr.levelBestTimes, levelId) = 0
                 \/ GetNum(pr.levelBestTimes, levelId) > time
              THEN PutNum(pr.levelBestTimes, levelId, time)
              ELSE pr.levelBestTimes
        nc == IF ~Includes(pr.completedLevels, levelId)
              THEN Append(pr.completedLevels, levelId)
              ELSE pr.completedLevels
        nu == IF levelId + 1 <= 10 /\ ~Includes(pr.unlockedLevels, levelId + 1)
              THEN Append(pr.unlockedLevels, levelId + 1)
              ELSE pr.unlockedLevels
    IN  [data EXCEPT !.progress = [unlockedLevels |-> nu, completedLevels |-> nc,
                                   levelStars |-> ns, levelBestTimes |-> nt]]

\* faulty variant of saveProgressData: the next level is pushed without the includes test
saveProgressDataPushAlways(data, levelId, stars, time) ==
    LET pr == data.progress
        ns == IF GetNum(pr.levelStars, levelId) = 0
                 \/ GetNum(pr.levelStars, levelId) < stars
              THEN PutNum(pr.levelStars, levelId, stars)
              ELSE pr.levelStars
        nt == IF GetNum(pr.levelBestTimes, levelId) = 0
                 \/ GetNum(pr.levelBestTimes, levelId) > time
              THEN PutNum(pr.levelBestTimes, levelId, time)
              ELSE pr.levelBestTimes
        nc == IF ~Includes(pr.completedLevels, levelId)
              THEN Append(pr.completedLevels, levelId)
              ELSE pr.completedLevels
        nu == IF levelId + 1 <= 10
              THEN Append(pr.unlockedLevels, levelId + 1)
              ELSE pr.unlockedLevels
    IN  [data EXCEPT !.progress = [unlockedLevels |-> nu, completedLevels |-> nc,
                                   levelStars |-> ns, levelBestTimes |-> nt]]

\* the body of saveProgress between loadAll and saveAll
saveProgressData(data, levelId, stars, time) ==
    LET pr == data.progress
        \* stars, only if better
        ns == IF GetNum(pr.levelStars, levelId) = 0
                 \/ GetNum(pr.levelStars, levelId) < stars
              THEN PutNum(pr.levelStars, levelId, stars)
              ELSE pr.levelStars
        \* best time, only if faster
        nt == IF GetNum(pr.levelBestTimes, levelId) = 0
                 \/ GetNum(pr.levelBestTimes, levelId) > time
              THEN PutNum(pr.levelBestTimes, levelId, time)
              ELSE pr.levelBestTimes
        \* mark as completed
        nc == IF ~Includes(pr.completedLevels, levelId)
              THEN Append(pr.completedLevels, levelId)
              ELSE pr.completedLevels
        \* unlock the next level
        nu == IF levelId + 1 <= 10 /\ ~Includes(pr.unlockedLevels, levelId + 1)
              THEN Append(pr.unlockedLevels, levelId + 1)
              ELSE pr.unlockedLevels
    IN  [data EXCEPT !.progress = [unlockedLevels |-> nu, completedLevels |-> nc,
                                   levelStars |-> ns, levelBestTimes |-> nt]]

\* level ids passed to saveProgress: the tutorial, the last level and the one
\* before it
SaveIds == {0, 9, 10}

\* Storage.saveProgress(levelId, stars, time)
saveProgress(levelId, stars, time) ==
    /\ UNCHANGED appVars
    /\ saves < MaxSaves
    /\ stored' = saveAll(saveProgressData(loadAll(stored), levelId, stars, time))
    /\ saves' = saves + 1
    /\ lastResult' = Result("saveProgress", levelId, "", "", time, stars)
    /\ UNCHANGED <<omVars, armVars, stepVars, levelVars, moves>>

NextStore ==
    \E levelId \in SaveIds, stars \in 1 .. 3, time \in 0 .. MaxSaveTime :
        saveProgress(levelId, stars, time)

SpecStore == Init /\ [][NextStore]_vars

----------------------------------------------------------------------------
(* Claims about the progress store *)

\* what loadProgress() returns
Progress == loadAll(stored).progress

NoDuplicates(seq) == \A i, j \in DOMAIN seq : seq[i] = seq[j] => i = j

\* C7: over any sequence of saveProgress calls with stars in 1..3, the stored
\* star count of a level never decreases, and it changes only to a strictly
\* larger value, the one just saved.
C7_StarsMonotonic ==
    [][\A id \in SaveIds :
         LET old == GetNum(Progress.levelStars, id)
             new == GetNum(Progress'.levelStars, id)
         IN  /\ new >= old
             /\ new # old => (new > old /\ lastResult'.arg = id
                                /\ lastResult'.stars = new)]_vars

\* C7 witness: 1 star was saved for a level that holds 2 stars, and it still
\* holds 2
C7_Witness ==
    /\ lastResult.op = "saveProgress" /\ lastResult.stars = 1
    /\ GetNum(Progress.levelStars, lastResult.arg) = 2

\* C8: once a best time is stored for a level (a best time of exactly 0
\* included), a saveProgress call changes it only to a strictly smaller
\* time, so it never increases.
C8_BestTimeMonotonic ==
    [][\A id \in SaveIds :
         id \in DOMAIN Progress.levelBestTimes
            => /\ id \in DOMAIN Progress'.levelBestTimes
               /\ Progress'.levelBestTimes[id] <= Progress.levelBestTimes[id]]_vars

\* C9: a level id once in unlockedLevels stays in it; completing level N < 10
\* adds N+1, completing level 10 unlocks nothing; unlockedLevels and
\* completedLevels never hold a duplicate.
C9_UnlockMonotonic ==
    [][/\ \A id \in Range(Progress.unlockedLevels) :
             id \in Range(Progress'.unlockedLevels)
       /\ NoDuplicates(Progress'.unlockedLevels)
       /\ NoDuplicates(Progress'.completedLevels)
       /\ lastResult'.arg < 10 => Includes(Progress'.unlockedLevels, lastResult'.arg + 1)
       /\ lastResult'.arg >= 10 => Progress'.unlockedLevels = Progress.unlockedLevels
      ]_vars

\* C9 witness: level 10 was completed after level 9 had unlocked it, twice over
C9_Witness ==
    /\ lastResult.op = "saveProgress" /\ lastResult.arg = 10
    /\ Includes(Progress.unlockedLevels, 10)
    /\ Includes(Progress.completedLevels, 9)
    /\ saves = MaxSaves

----------------------------------------------------------------------------
(* Grasp logic: RobotArmSimulator.updateJoints and ObjectManager.checkClamping *)

\* getGripperWidth, in micrometres, for a gripper angle in whole degrees:
\* 0.16 + 2 * degToRad(angle) * 0.4, with 2 * 0.4 * pi / 180 = 0.013962634
GripperWidth(angle) == 160000 + (angle * 13962634) \div 1000

\* userData.size: spawnObject stores no size in userData, so it is undefined
UserDataSize(o) == 0

\* the size checkClamping reads off the geometry, in millimetres
ClampSize(o) == JsOr(JsOr(GeomWidth(o), GeomDiameter(o)), 300)

\* the loop of checkClamping over the first k objects of the registry:
\* the closest object so far (NoObject if none) and its squared distance
\* (the square of the 1.0 check radius if none)
RECURSIVE ClampScan(_, _, _, _, _)
ClampScan(objs, att, centerPos, gripperWidth, k) ==
    IF k = 0 THEN [object |-> NoObject, distSq |-> 1000 * 1000]
    ELSE LET prev == ClampScan(objs, att, centerPos, gripperWidth, k - 1)
             o    == objs[k]
         IN  IF ~o.pickable \/ (att # NoObject /\ att = o.id) THEN prev
             ELSE IF DistSq(centerPos, o.position) < prev.distSq
                      /\ gripperWidth >= (ClampSize(o) - 50) * 1000
                      /\ gripperWidth <= (ClampSize(o) + 200) * 1000
                  THEN [object |-> o.id, distSq |-> DistSq(centerPos, o.position)]
                  ELSE prev

\* faulty variant of checkClamping: without the final 0.3 test
checkClampingAnyDistance(objs, att, centerPos, gripperWidth) ==
    ClampScan(objs, att, centerPos, gripperWidth, Len(objs)).object

\* checkClamping: the object found, if it is closer than 0.3; NoObject otherwise
checkClamping(objs, att, centerPos, gripperWidth) ==
    LET found == ClampScan(objs, att, centerPos, gripperWidth, Len(objs))
    IN  IF found.object # NoObject /\ found.distSq < 300 * 300
        THEN found.object ELSE NoObject

\* faulty variant of AfterPickup: an object already held does not stop the test
AfterPickupAlways(objs, att, angle, centerPos) ==
    IF angle < 40 /\ angle > 0
       /\ checkClamping(objs, att, centerPos, GripperWidth(angle)) # NoObject
    THEN checkClamping(objs, att, centerPos, GripperWidth(angle))
    ELSE att

\* step 2 of updateJoints: attachedObject after the pick-up test
AfterPickup(objs, att, angle, centerPos) ==
    IF att = NoObject /\ angle < 40 /\ angle > 0
       /\ checkClamping(objs, att, centerPos, GripperWidth(angle)) # NoObject
    THEN checkClamping(objs, att, centerPos, GripperWidth(angle))
    ELSE att

\* step 3 of updateJoints: does the gripper drop the object it holds
AutoRelease(objs, att, angle) ==
    /\ att # NoObject
    /\ GripperWidth(angle)
          > (JsOr(UserDataSize(objs[IndexOf(objs, att)]), 300) + 100) * 1000

\* gripper angles of the poses, in degrees
GraspAngles == {0, 5, 14, 18, 20, 40}

\* gripper centers of the poses: the rest pose, 0.1 and 0.5 above the place
\* of each test object, and 0.25 above the place of the last one
GraspPoints ==
    {GripperHome}
        \cup {AddVec(TestObjects[i].position, Vec(0, d, 0)) :
                 i \in DOMAIN TestObjects, d \in {100, 500}}
        \cup {AddVec(TestObjects[3].position, Vec(0, 250, 0))}

\* RobotArmSimulator.updateJoints(angles): the pose's gripper angle, and the
\* gripper center that the pose's joint angles give (getGripperCenterPosition)
updateJoints(angle, centerPos) ==
    LET picked   == AfterPickup(objects, attachedObject, angle, centerPos)
        released == AutoRelease(objects, picked, angle)
        held     == IF released THEN NoObject ELSE picked
        objs     == IF released THEN releaseObjectIn(objects, picked) ELSE objects
    IN  /\ gripperAngle' = angle
        /\ gripperPos' = centerPos
        /\ attachedObject' = held
        /\ objects' = updateAttachedObjectIn(objs, held, centerPos)
        /\ lastResult' = NoResult
        /\ UNCHANGED <<nextId, stepVars, levelVars, storeVars, appVars, moves>>

\* ObjectManager.checkClamping(centerPos, gripperWidth, ...), with the
\* arguments updateJoints gives it in the current pose
checkClampingCall ==
    /\ UNCHANGED appVars
    /\ lastResult' = Result("checkClamping",
                            checkClamping(objects, attachedObject, gripperPos,
                                          GripperWidth(gripperAngle)),
                            "", "", 0, 0)
    /\ UNCHANGED <<omVars, armVars, stepVars, levelVars, storeVars, moves>>

NextGrasp ==
    \/ \E angle \in GraspAngles, centerPos \in GraspPoints :
          updateJoints(angle, centerPos)
    \/ checkClampingCall

SpecGrasp == Init /\ [][NextGrasp]_vars

----------------------------------------------------------------------------
(* Claims about the grasp logic *)

\* C5: starting with nothing attached, one updateJoints with the gripper at
\* 20 degrees and a pickable object of size 0.3 at distance 0.1 from the
\* gripper center leaves that object attached when the call returns; with
\* every object at distance 0.5 or more nothing is attached.
C5_GraspAttach ==
    [][(attachedObject = NoObject /\ gripperAngle' = 20) =>
          /\ \A i \in DOMAIN objects :
                (objects[i].pickable /\ objects[i].size = 300
                   /\ DistSq(gripperPos', objects[i].position) = 100 * 100)
                => attachedObject' = objects[i].id
          /\ (\A i \in DOMAIN objects :
                 DistSq(gripperPos', objects[i].position) >= 500 * 500)
                => attachedObject' = NoObject]_vars

\* C6: an attached object, whatever its spawned size, stays attached across
\* an updateJoints that leaves gripperWidth <= its own size + 0.1, and is
\* released, with velocity (0,0,0), by one that makes gripperWidth larger.
C6_GraspRelease ==
    [][attachedObject # NoObject =>
          LET i == IndexOf(objects, attachedObject)
          IN  IF GripperWidth(gripperAngle') <= (objects[i].size + 100) * 1000
              THEN attachedObject' = attachedObject
              ELSE /\ attachedObject' = NoObject
                   /\ objects'[i].velocity = Vec(0, 0, 0)]_vars

\* checkClamping has just returned
ClampReturned == lastResult.op = "checkClamping"

\* the gripper width of the current pose
Width == GripperWidth(gripperAngle)

\* object o could be returned by checkClamping: pickable and not the held one
Candidate(o) ==
    o.pickable /\ (attachedObject = NoObject \/ attachedObject # o.id)

\* the size band as stated: gripperWidth - 0.05 <= size <= gripperWidth + 0.2
InStatedBand(o) ==
    Width - 50000 <= o.size * 1000 /\ o.size * 1000 <= Width + 200000

\* C18: a pickable free object is eligible as a clamp candidate exactly when
\* gripperWidth - 0.05 <= size <= gripperWidth + 0.2: checkClamping never
\* returns an object outside the band, and returns the object in the band
\* that is the only candidate within 1.0 and is closer than 0.3.
C18_SizeBand ==
    (ClampReturned /\ gripperAngle > 0 /\ gripperAngle < 40) =>
        \A i \in DOMAIN objects :
            Candidate(objects[i]) =>
               /\ lastResult.arg = objects[i].id => InStatedBand(objects[i])
               /\ (/\ InStatedBand(objects[i])
                   /\ DistSq(gripperPos, objects[i].position) < 300 * 300
                   /\ \A j \in DOMAIN objects \ {i} :
                         DistSq(gripperPos, objects[j].position) >= 1000 * 1000)
                  => lastResult.arg = objects[i].id

\* the size test of checkClamping, on the size it reads off the geometry
SizeCompatible(o) ==
    Width >= (ClampSize(o) - 50) * 1000 /\ Width <= (ClampSize(o) + 200) * 1000

\* the indices of the pickable, unattached, size-compatible objects at
\* distance below 1.0
Compatibles ==
    {i \in DOMAIN objects :
        /\ Candidate(objects[i]) /\ SizeCompatible(objects[i])
        /\ DistSq(gripperPos, objects[i].position) < 1000 * 1000}

\* those of them no other one is closer than
Closest ==
    {i \in Compatibles :
        \A j \in Compatibles : DistSq(gripperPos, objects[i].position)
                                   <= DistSq(gripperPos, objects[j].position)}

\* C19: checkClamping returns the closest of the pickable, unattached,
\* size-compatible objects at distance below 1.0, and only if that distance
\* is below 0.3; objects that are not size-compatible play no part; without
\* a compatible object within 0.3 it returns none.
C19_TwoStageDistance ==
    ClampReturned =>
        IF \E i \in Closest : DistSq(gripperPos, objects[i].position) < 300 * 300
        THEN \E i \in Closest : lastResult.arg = objects[i].id
        ELSE lastResult.arg = NoObject

\* C19 witness: checkClamping returned an object although an object that is
\* not size-compatible is nearer
C19_Witness ==
    /\ ClampReturned /\ lastResult.arg # NoObject
    /\ \E i \in DOMAIN objects :
          /\ Candidate(objects[i]) /\ ~SizeCompatible(objects[i])
          /\ DistSq(gripperPos, objects[i].position)
                < DistSq(gripperPos, objects[IndexOf(objects, lastResult.arg)].position)

\* C20: an update attaches an object only if none was attached before it and
\* the gripper angle is above 0 and below 40; otherwise no object becomes
\* attached and a held object is not replaced.
C20_AttachGuard ==
    [][(attachedObject' # NoObject /\ attachedObject' # attachedObject)
          => (attachedObject = NoObject /\ gripperAngle' > 0 /\ gripperAngle' < 40)]_vars

\* C20 witness: an object is held in a pose in which another object is
\* between the fingers and would be picked up by a free gripper
C20_Witness ==
    /\ attachedObject # NoObject
    /\ gripperAngle > 0 /\ gripperAngle < 40
    /\ checkClamping(objects, attachedObject, gripperPos, Width) # NoObject

----------------------------------------------------------------------------
(* Physics: ObjectManager.update(dt, armColliders)                          *)
(* dt is in milliseconds, velocities are in millimetres per second; every   *)
(* product is rounded toward zero to a whole millimetre (per second).       *)

\* ObjectManager.gravity, in mm/s^2
Gravity == -9800

\* the largest dt a step integrates, in ms
MaxDt == 50

\* a / b rounded toward zero
TruncDiv(a, b) == IF a >= 0 THEN a \div b ELSE -((-a) \div b)

\* Math.min
Min(a, b) == IF a < b THEN a ELSE b

\* the length of a vector with integer components, rounded down
Length(v) ==
    LET n == v[1] * v[1] + v[2] * v[2] + v[3] * v[3]
    IN  CHOOSE r \in 0 .. 2000 : r * r <= n /\ n < (r + 1) * (r + 1)

\* Vector3.normalize, the unit vector in thousandths; the zero vector stays
Normalize(v) ==
    LET len == Length(v)
    IN  IF len = 0 THEN v
        ELSE Vec(TruncDiv(v[1] * 1000, len), TruncDiv(v[2] * 1000, len),
                 TruncDiv(v[3] * 1000, len))

\* addScaledVector(v, s) with s = num / den
AddScaled(p, v, num, den) ==
    Vec(p[1] + TruncDiv(v[1] * num, den), p[2] + TruncDiv(v[2] * num, den),
        p[3] + TruncDiv(v[3] * num, den))

\* a collision sphere of the arm
Collider(pos, radius) == [position |-> pos, radius |-> radius]

\* faulty variant of Integrate: the floor collision keeps the vertical velocity
IntegrateKeepVelocity(o, dt) ==
    LET vy  == IF ~o.onFloor THEN o.velocity[2] + TruncDiv(Gravity * dt, 1000)
               ELSE o.velocity[2]
        v   == Vec(o.velocity[1], vy, o.velocity[3])
        pos == AddScaled(o.position, v, dt, 1000)
    IN  IF pos[2] < o.radius
        THEN [o EXCEPT !.position = Vec(pos[1], o.radius, pos[3]),
                       !.velocity = Vec(TruncDiv(v[1] * 9, 10), vy, TruncDiv(v[3] * 9, 10)),
                       !.onFloor = TRUE]
        ELSE [o EXCEPT !.position = pos, !.velocity = v, !.onFloor = FALSE]

\* faulty variant of Integrate: gravity is never applied
IntegrateNoGravity(o, dt) ==
    LET v   == o.velocity
        pos == AddScaled(o.position, v, dt, 1000)
    IN  IF pos[2] < o.radius
        THEN [o EXCEPT !.position = Vec(pos[1], o.radius, pos[3]),
                       !.velocity = Vec(TruncDiv(v[1] * 9, 10), 0, TruncDiv(v[3] * 9, 10)),
                       !.onFloor = TRUE]
        ELSE [o EXCEPT !.position = pos, !.velocity = v, !.onFloor = FALSE]

\* gravity, velocity and the floor collision for one object
Integrate(o, dt) ==
    LET vy  == IF ~o.onFloor THEN o.velocity[2] + TruncDiv(Gravity * dt, 1000)
               ELSE o.velocity[2]
        v   == Vec(o.velocity[1], vy, o.velocity[3])
        pos == AddScaled(o.position, v, dt, 1000)
    IN  IF pos[2] < o.radius
        THEN [o EXCEPT !.position = Vec(pos[1], o.radius, pos[3]),
                       !.velocity = Vec(TruncDiv(v[1] * 9, 10), 0, TruncDiv(v[3] * 9, 10)),
                       !.onFloor = TRUE]
        ELSE [o EXCEPT !.position = pos, !.velocity = v, !.onFloor = FALSE]

\* faulty variant of Push: a downward direction is not deflected upward
PushNoDeflect(o, c) ==
    LET minDist == o.radius + c.radius
        diff    == Vec(o.position[1] - c.position[1], o.position[2] - c.position[2],
                       o.position[3] - c.position[3])
    IN  IF DistSq(o.position, c.position) < minDist * minDist
        THEN LET pushDir == Normalize(diff)
                 overlap == minDist - Length(diff)
             IN  [o EXCEPT !.position = AddScaled(o.position, pushDir, overlap * 3, 2000),
                           !.velocity = AddScaled(o.velocity, pushDir, 2, 1)]
        ELSE o

\* the push one collider gives an object it overlaps
Push(o, c) ==
    LET minDist == o.radius + c.radius
        diff    == Vec(o.position[1] - c.position[1], o.position[2] - c.position[2],
                       o.position[3] - c.position[3])
    IN  IF DistSq(o.position, c.position) < minDist * minDist
        THEN LET dir0    == Normalize(diff)
                 pushDir == Normalize(IF dir0[2] < 0 THEN Vec(dir0[1], 100, dir0[3])
                                      ELSE dir0)
                 overlap == minDist - Length(diff)
             IN  [o EXCEPT !.position = AddScaled(o.position, pushDir, overlap * 3, 2000),
                           !.velocity = AddScaled(o.velocity, pushDir, 2, 1)]
        ELSE o

\* the loop over the arm colliders, for the first k of them
RECURSIVE PushAll(_, _, _)
PushAll(o, colliders, k) ==
    IF k = 0 THEN o ELSE Push(PushAll(o, colliders, k - 1), colliders[k])

\* faulty variant of StepObject: no object is skipped
StepObjectNoSkip(o, att, dt, colliders) ==
    PushAll(Integrate(o, dt), colliders, Len(colliders))

\* one object's step: attached and static objects are skipped
StepObject(o, att, dt, colliders) ==
    IF (att # NoObject /\ att = o.id) \/ o.isStatic THEN o
    ELSE PushAll(Integrate(o, dt), colliders, Len(colliders))

\* faulty variant of PhysicsStep: dt is not clamped
PhysicsStepUnclamped(objs, att, dt, colliders) ==
    [i \in DOMAIN objs |-> StepObject(objs[i], att, dt, colliders)]

\* ObjectManager.update(dt, armColliders): the registry after the step
PhysicsStep(objs, att, dt, colliders) ==
    [i \in DOMAIN objs |-> StepObject(objs[i], att, Min(dt, MaxDt), colliders)]

\* values of dt, in ms: none, the frame loop's 0.016, the clamp and beyond it
DtSamples == {0, 16, 50, 1000}

\* arm colliders of a pose: none; the base mount, turntable and shoulder,
\* which no test object touches; a gripper base right above the first test
\* cube; a wrist beside it
ColliderSamples ==
    { << >>,
      <<Collider(Vec(0, 0, 0), 800), Collider(Vec(0, 600, 0), 700),
        Collider(Vec(0, 1000, 0), 500)>>,
      <<Collider(Vec(2000, 350, 0), 250)>>,
      <<Collider(Vec(1700, 250, 100), 300)>> }

\* ObjectManager.update(dt, armColliders)
physicsUpdate(dt, armColliders) ==
    /\ UNCHANGED appVars
    /\ steps < MaxSteps
    /\ objects' = PhysicsStep(objects, attachedObject, dt, armColliders)
    /\ steps' = steps + 1
    /\ lastStep' = [dt |-> dt, armColliders |-> armColliders]
    /\ lastResult' = NoResult
    /\ UNCHANGED <<nextId, attachedObject, armVars, levelVars, storeVars, moves,
                   frames>>

NextPhysics ==
    \E dt \in DtSamples, armColliders \in ColliderSamples :
        physicsUpdate(dt, armColliders)

SpecPhysics == Init /\ [][NextPhysics]_vars

----------------------------------------------------------------------------
(* Claims about the physics step *)

\* a physics step has just been taken
Stepped == steps' = steps + 1

\* object o is integrated by a step
Integrated(o) == ~o.isStatic /\ (attachedObject = NoObject \/ attachedObject # o.id)

\* C16: a step integrates with min(dt, 0.05): from the same state and
\* colliders, a step with dt above 0.05 leaves exactly the positions,
\* velocities and floor flags that a step with dt = 0.05 leaves.
C16_DtClamp ==
    [][Stepped =>
         objects' = [i \in DOMAIN objects |->
                        StepObject(objects[i], attachedObject,
                                   IF lastStep'.dt > 50 THEN 50 ELSE lastStep'.dt,
                                   lastStep'.armColliders)]]_vars

\* C16 witness: a step with dt = 1.0 has moved an object that is in the air
C16_Witness ==
    /\ steps > 0 /\ lastStep.dt = 1000
    /\ \E i \in DOMAIN objects :
          /\ ~objects[i].onFloor
          /\ objects[i].velocity[2] # 0
          /\ objects[i].position[2] > objects[i].radius

\* C17: a free object with position.y = radius and zero velocity, stepped
\* without arm colliders, has position.y = radius and velocity.y = 0 at the
\* end of the step, whatever its floor-contact flag was.
C17_RestingStaysAtRadius ==
    [][(Stepped /\ lastStep'.armColliders = << >>) =>
         \A i \in DOMAIN objects :
            (Integrated(objects[i])
               /\ objects[i].position[2] = objects[i].radius
               /\ objects[i].velocity = Vec(0, 0, 0))
            => (objects'[i].position[2] = objects[i].radius
                  /\ objects'[i].velocity[2] = 0)]_vars

\* C17 witness: after three steps without colliders, of which the last one
\* lasted, an object rests at its radius with the floor flag it started with
C17_Witness ==
    /\ steps = 3 /\ lastStep.armColliders = << >> /\ lastStep.dt = 16
    /\ \E i \in DOMAIN objects :
          /\ objects[i].position[2] = objects[i].radius
          /\ objects[i].velocity = Vec(0, 0, 0)
          /\ objects[i].position = TestObjects[i].position
          /\ objects[i].onFloor

\* C21: at the end of every step, every object the step integrated has
\* position.y >= radius, whatever arm colliders were supplied; the arm
\* repulsion leaves no object lower than gravity, velocity and the floor
\* collision of that step put it.
C21_FloorInvariant ==
    [][Stepped =>
         \A i \in DOMAIN objects :
            Integrated(objects[i])
            => /\ objects'[i].position[2] >= objects'[i].radius
               /\ objects'[i].position[2] >=
                     Integrate(objects[i], Min(lastStep'.dt, MaxDt)).position[2]]_vars

\* C21 witness: a collider whose center is above the first test cube has
\* pushed the cube, and the cube went up
C21_Witness ==
    /\ steps = 1
    /\ Len(lastStep.armColliders) = 1
    /\ lastStep.armColliders[1].position[2] > TestObjects[1].position[2]
    /\ objects[1].position[2] > TestObjects[1].position[2]
    /\ objects[1].velocity[2] > 0

\* C27: a free object at position.y = radius with zero velocity whose
\* floor-contact flag is set still has the flag set at the end of a step
\* without arm colliders.
C27_FloorFlagStays ==
    [][(Stepped /\ lastStep'.armColliders = << >>) =>
         \A i \in DOMAIN objects :
            (Integrated(objects[i])
               /\ objects[i].position[2] = objects[i].radius
               /\ objects[i].velocity = Vec(0, 0, 0)
               /\ objects[i].onFloor)
            => objects'[i].onFloor]_vars

----------------------------------------------------------------------------
(* Storage: loadAll and importAll over whatever localStorage holds *)

\* a progress record with the tutorial completed
SomeProgress ==
    [unlockedLevels |-> <<0, 1>>, completedLevels |-> <<0>>,
     levelStars |-> PutNum(<< >>, 0, 2), levelBestTimes |-> PutNum(<< >>, 0, 1)]

\* what localStorage may hold when the page loads: nothing, a text that is
\* not JSON, null, and records of another version, of no version and of
\* this version
StoredSamples ==
    { << >>, <<Unparseable>>, <<JsonNull>>,
      <<[version |-> "0.9", progress |-> SomeProgress]>>,
      <<[version |-> "", progress |-> SomeProgress]>>,
      <<[version |-> StorageVersion, progress |-> SomeProgress]>> }

\* arguments of importAll: a text that is not JSON, null, a record without
\* version, a record without progress, and two well-formed records
ImportSamples ==
    << Unparseable, JsonNull,
       [version |-> "", progress |-> getDefaultData.progress],
       [version |-> StorageVersion, progress |-> NoProgress],
       [version |-> "0.9", progress |-> getDefaultData.progress],
       [version |-> StorageVersion, progress |-> SomeProgress] >>

\* faulty variant of importAllOutcome: a parsed object is saved before it is
\* validated
importAllOutcomeSaveFirst(st, data) ==
    IF data \in {Unparseable, JsonNull} THEN [ok |-> FALSE, stored |-> st]
    ELSE [ok |-> data.version # "" /\ data.progress # NoProgress,
          stored |-> saveAll(data)]

\* importAll(jsonData): the returned value and what localStorage holds
\* afterwards; JSON.parse of an unparseable text and data.version of null
\* throw, and the catch block returns false
importAllOutcome(st, data) ==
    IF data \in {Unparseable, JsonNull} THEN [ok |-> FALSE, stored |-> st]
    ELSE IF data.version # "" /\ data.progress # NoProgress
    THEN [ok |-> TRUE, stored |-> saveAll(data)]
    ELSE [ok |-> FALSE, stored |-> st]

\* a call of the store, its argument, what it returned and the record it
\* returned
StoreResult(op, arg, status, value) ==
    [op |-> op, arg |-> arg, status |-> status, reason |-> "", time |-> 0,
     stars |-> 0, value |-> value]

\* Storage.loadAll()
loadAllCall ==
    /\ UNCHANGED appVars
    /\ lastResult' = StoreResult("loadAll", 0, "returned", loadAll(stored))
    /\ UNCHANGED <<omVars, armVars, stepVars, levelVars, storeVars, moves>>

\* Storage.importAll(jsonData), with the k-th sample as jsonData
importAll(k) ==
    /\ UNCHANGED appVars
    /\ stored' = importAllOutcome(stored, ImportSamples[k]).stored
    /\ lastResult' = StoreResult("importAll", k,
                                 IF importAllOutcome(stored, ImportSamples[k]).ok
                                 THEN "true" ELSE "false",
                                 JsonNull)
    /\ UNCHANGED <<omVars, armVars, stepVars, levelVars, saves, moves>>

InitImport == InitSimulator /\ stored \in StoredSamples

NextImport ==
    \/ loadAllCall
    \/ \E k \in DOMAIN ImportSamples : importAll(k)
    \/ \E levelId \in SaveIds, stars \in 1 .. 3, time \in 0 .. MaxSaveTime :
          saveProgress(levelId, stars, time)

SpecImport == InitImport /\ [][NextImport]_vars

----------------------------------------------------------------------------
(* Claims about loadAll and importAll *)

\* localStorage holds a record whose version field is exactly the store's
StoredOfThisVersion ==
    /\ stored # << >>
    /\ stored[1] \notin {Unparseable, JsonNull}
    /\ stored[1].version = "1.0"

\* C14: loadAll returns the stored record only when its version field equals
\* the store's version exactly; with nothing stored, an unparseable text, a
\* stored null or another or no version it returns the default record
\* (unlockedLevels = [0], nothing completed, no stars, no best times); it
\* always returns.
C14_VersionGate ==
    lastResult.op = "loadAll" =>
        /\ lastResult.status = "returned"
        /\ lastResult.value =
              IF StoredOfThisVersion THEN stored[1]
              ELSE [version |-> "1.0",
                    progress |-> [unlockedLevels |-> <<0>>, completedLevels |-> << >>,
                                  levelStars |-> << >>, levelBestTimes |-> << >>]]

\* C14 witness: loadAll returned the default record although a record with
\* progress, of another version, is stored
C14_Witness ==
    /\ lastResult.op = "loadAll"
    /\ stored = <<[version |-> "0.9", progress |-> SomeProgress]>>
    /\ lastResult.value.progress.completedLevels = << >>

\* jsonData is malformed: unparseable, null, or without version or progress
Malformed(data) ==
    IF data \in {Unparseable, JsonNull} THEN TRUE
    ELSE data.version = "" \/ data.progress = NoProgress

\* C15: importAll of a malformed record returns false and leaves what is
\* stored exactly as it was.
C15_MalformedImportRejected ==
    [][(lastResult'.op = "importAll" /\ lastResult' # lastResult
          /\ Malformed(ImportSamples[lastResult'.arg]))
        => (lastResult'.status = "false" /\ stored' = stored)]_vars

\* C15 witness: importAll of a record without progress returned false after
\* progress had been saved
C15_Witness ==
    /\ lastResult.op = "importAll" /\ lastResult.arg = 4
    /\ lastResult.status = "false"
    /\ saves > 0
    /\ StoredOfThisVersion

----------------------------------------------------------------------------
(* The frame loop: RobotArmSimulator.animate *)

\* the link fields that are objects once createRobotArmRedesigned() has run;
\* the upper arm and the forearm are built as upperArmGroup and forearmGroup,
\* and upperArmLink and forearmLink stay null
ArmFields ==
    {"baseMount", "baseTurntable", "shoulderJoint", "upperArmGroup", "elbowJoint",
     "forearmGroup", "wristPitchJoint", "gripperBase"}

ArmLink(field, pos, radius) == [field |-> field, collider |-> Collider(pos, radius)]

\* the fields getColliders() tests, in its order, each with the world position
\* of the link in the rest pose and the radius it is given
ColliderLinks ==
    <<ArmLink("baseMount", Vec(0, 0, 0), 800),
      ArmLink("baseTurntable", Vec(0, 600, 0), 700),
      ArmLink("shoulderJoint", Vec(0, 1000, 0), 500),
      ArmLink("upperArmLink", Vec(0, 1800, 0), 400),
      ArmLink("elbowJoint", Vec(0, 2600, 0), 400),
      ArmLink("forearmLink", Vec(0, 3200, 0), 300),
      ArmLink("wristPitchJoint", Vec(0, 3800, 0), 300),
      ArmLink("gripperBase", Vec(0, 4130, 0), 250)>>

\* the links of a sequence whose field is an object
RECURSIVE BuiltLinks(_, _)
BuiltLinks(links, k) ==
    IF k = 0 THEN << >>
    ELSE IF links[k].field \in ArmFields
         THEN Append(BuiltLinks(links, k - 1), links[k].collider)
         ELSE BuiltLinks(links, k - 1)

\* getColliders() in the rest pose: one sphere per field that is not null
getColliders == BuiltLinks(ColliderLinks, Len(ColliderLinks))

\* the fixed dt of the frame loop, in ms
FrameDt == 16

\* faulty variant of FrameOutcome: a timeout restarts the level's clock
FrameOutcomeRestartClock(objs, t) ==
    IF ~isActive
    THEN [elapsedTime |-> elapsedTime, targetStates |-> targetStates,
          isActive |-> isActive, stored |-> stored, saves |-> saves,
          result |-> Result("animate", 0, "", "", 0, 0)]
    ELSE LET states == IF TimedOut(currentLevel, t) THEN targetStates
                       ELSE updateTargetStates(targetMeshes, objs, Len(objs))
             status == updateResult(currentLevel, t, states)
         IN  IF status.status = "completed"
             THEN [elapsedTime |-> t, targetStates |-> states, isActive |-> FALSE,
                   stored |-> saveAll(saveProgressData(loadAll(stored), currentLevel,
                                                       calculateStars(currentLevel, t), t)),
                   saves |-> saves + 1,
                   result |-> [status EXCEPT !.op = "animate", !.arg = currentLevel]]
             ELSE [elapsedTime |-> IF status.status = "failed" THEN 0 ELSE t,
                   targetStates |-> states, isActive |-> isActive,
                   stored |-> stored, saves |-> saves,
                   result |-> [status EXCEPT !.op = "animate", !.arg = currentLevel]]

\* faulty variant of FrameOutcome: completeLevel leaves the manager active
FrameOutcomeStayActive(objs, t) ==
    IF ~isActive
    THEN [elapsedTime |-> elapsedTime, targetStates |-> targetStates,
          isActive |-> isActive, stored |-> stored, saves |-> saves,
          result |-> Result("animate", 0, "", "", 0, 0)]
    ELSE LET states == IF TimedOut(currentLevel, t) THEN targetStates
                       ELSE updateTargetStates(targetMeshes, objs, Len(objs))
             status == updateResult(currentLevel, t, states)
         IN  IF status.status = "completed"
             THEN [elapsedTime |-> t, targetStates |-> states, isActive |-> TRUE,
                   stored |-> saveAll(saveProgressData(loadAll(stored), currentLevel,
                                                       calculateStars(currentLevel, t), t)),
                   saves |-> saves + 1,
                   result |-> [status EXCEPT !.op = "animate", !.arg = currentLevel]]
             ELSE [elapsedTime |-> t, targetStates |-> states, isActive |-> isActive,
                   stored |-> stored, saves |-> saves,
                   result |-> [status EXCEPT !.op = "animate", !.arg = currentLevel]]

\* the level part of a frame, on the registry objs the physics step left, t
\* seconds after the level started: levelManager.update() when the manager is
\* active, and on 'completed' completeLevel() (saveProgress with the level's
\* id, calculateStars() and elapsedTime; isActive = false) and the
\* 'levelCompleted' event, whose detail is the result recorded
FrameOutcome(objs, t) ==
    IF ~isActive
    THEN [elapsedTime |-> elapsedTime, targetStates |-> targetStates,
          isActive |-> isActive, stored |-> stored, saves |-> saves,
          result |-> Result("animate", 0, "", "", 0, 0)]
    ELSE LET states == IF TimedOut(currentLevel, t) THEN targetStates
                       ELSE updateTargetStates(targetMeshes, objs, Len(objs))
             status == updateResult(currentLevel, t, states)
         IN  IF status.status = "completed"
             THEN [elapsedTime |-> t, targetStates |-> states, isActive |-> FALSE,
                   stored |-> saveAll(saveProgressData(loadAll(stored), currentLevel,
                                                       calculateStars(currentLevel, t), t)),
                   saves |-> saves + 1,
                   result |-> [status EXCEPT !.op = "animate", !.arg = currentLevel]]
             ELSE [elapsedTime |-> t, targetStates |-> states, isActive |-> isActive,
                   stored |-> stored, saves |-> saves,
                   result |-> [status EXCEPT !.op = "animate", !.arg = currentLevel]]

\* the callback handleLevelCompletion hands to setTimeout; it captures the
\* result only, and is tagged here with the simulator instance and the
\* startLevel call whose level completed
Timer(sim, load) == [sim |-> sim, load |-> load]

\* RobotArmSimulator.animate(): one frame, t seconds after the level started;
\* the 'levelCompleted' event runs App.handleLevelCompletion, which schedules
\* its callback
animate(t) ==
    /\ frames < MaxFrames
    /\ t >= elapsedTime
    /\ objects' = PhysicsStep(objects, attachedObject, FrameDt, getColliders)
    /\ elapsedTime' = FrameOutcome(objects', t).elapsedTime
    /\ targetStates' = FrameOutcome(objects', t).targetStates
    /\ isActive' = FrameOutcome(objects', t).isActive
    /\ stored' = FrameOutcome(objects', t).stored
    /\ saves' = FrameOutcome(objects', t).saves
    /\ lastResult' = FrameOutcome(objects', t).result
    /\ frames' = frames + 1
    /\ lastStep' = [dt |-> FrameDt, armColliders |-> getColliders]
    /\ timers' = IF FrameOutcome(objects', t).result.status = "completed"
                 THEN timers \cup {Timer(robotSimulator, loads)}
                 ELSE timers
    /\ UNCHANGED <<nextId, attachedObject, armVars, currentLevel, targetMeshes,
                   obstacleMeshes, moves, steps, robotSimulator, activeScreen, loads>>

\* the levels started in the frame loop: one and two objects, and obstacles
FrameIds == {1, 2, 7}

NextFrame ==
    \/ \E id \in FrameIds : loadLevelBounded(id, MaxFrameNextId)
    \/ exitLevel
    \/ \E t \in (IF currentLevel = NoLevel THEN {1} ELSE TimeSamples(currentLevel)) :
          animate(t)
    \/ \E id \in {objects[i].id : i \in DOMAIN objects} : attachToGripper(id)
    \/ \E p \in CarryPoints(targetMeshes) : updateAttachedObject(p)
    \/ releaseObject

SpecFrame == Init /\ [][NextFrame]_vars

----------------------------------------------------------------------------
(* Claims about the frame loop *)

\* C11: after a successful loadLevel(id), from whatever state, the live objects
\* are exactly the level's declared objects, no object is attached, there is
\* one unfilled target state per declared target, the obstacles are the
\* declared ones, the elapsed time is zero and the manager is active.
C11_LoadResets ==
    (lastResult.op = "loadLevel" /\ lastResult.status = "true") =>
        LET lvl == LEVELS[CHOOSE i \in DOMAIN LEVELS : LEVELS[i].id = lastResult.arg]
        IN  /\ Len(objects) = Len(lvl.objects)
            /\ \A k \in DOMAIN objects :
                  /\ objects[k].type = lvl.objects[k].type
                  /\ objects[k].position = lvl.objects[k].position
                  /\ objects[k].color = lvl.objects[k].color
                  /\ objects[k].size = lvl.objects[k].size
                  /\ objects[k].velocity = Vec(0, 0, 0)
            /\ attachedObject = NoObject
            /\ targetMeshes = lvl.targets
            /\ Len(targetStates) = Len(lvl.targets)
            /\ \A i \in DOMAIN targetStates :
                  ~targetStates[i].filled /\ targetStates[i].object = NoObject
            /\ obstacleMeshes = lvl.obstacles
            /\ elapsedTime = 0
            /\ isActive
            /\ currentLevel = lastResult.arg

\* C11 witness: a level with obstacles has been loaded over a level that was
\* completed and saved
C11_Witness ==
    /\ lastResult.op = "loadLevel" /\ lastResult.status = "true"
    /\ lastResult.arg = 7
    /\ nextId = Len(TestObjects) + 3
    /\ saves = 1

\* C23: once the arm is built, the colliders a frame hands to the physics
\* step are eight spheres, in the order base mount, turntable, shoulder, upper
\* arm, elbow, forearm, wrist pitch, gripper base.
C23_EightColliders ==
    frames > 0 =>
        /\ Len(lastStep.armColliders) = Len(ColliderLinks)
        /\ \A k \in DOMAIN ColliderLinks :
              lastStep.armColliders[k] = ColliderLinks[k].collider

\* C13: the frame on which update() reports 'completed' persists the level's
\* id, star count and elapsed time and leaves the Active state; nothing else
\* persists progress, and only loadLevel makes the manager active again, so
\* a loadLevel leads to at most one saveProgress and one 'levelCompleted'.
C13_CompletionPersistsOnce ==
    [][/\ (frames' = frames + 1 /\ lastResult'.status = "completed")
          => /\ isActive /\ ~isActive'
             /\ saves' = saves + 1
             /\ lastResult'.arg = currentLevel
             /\ lastResult'.time = elapsedTime'
             /\ Includes(Progress'.completedLevels, currentLevel)
             /\ GetNum(Progress'.levelStars, currentLevel) >= lastResult'.stars
             /\ GetNum(Progress.levelStars, currentLevel) < lastResult'.stars
                   => GetNum(Progress'.levelStars, currentLevel) = lastResult'.stars
             /\ GetNum(Progress.levelBestTimes, currentLevel) = 0
                   => GetNum(Progress'.levelBestTimes, currentLevel) = lastResult'.time
       /\ (saves' # saves \/ stored' # stored)
          => (frames' = frames + 1 /\ lastResult'.status = "completed")
       /\ (~isActive /\ isActive') => lastResult'.op = "loadLevel"]_vars

\* C13 witness: two frames after a level was completed, nothing more was saved
C13_Witness ==
    /\ lastResult.op = "animate" /\ lastResult.status = ""
    /\ currentLevel # NoLevel /\ ~isActive
    /\ saves = 1 /\ frames >= 3
    /\ \A i \in DOMAIN targetStates : targetStates[i].filled

----------------------------------------------------------------------------
(* Physics with an object in the gripper: objects are picked up, carried,   *)
(* released and stepped                                                     *)

\* the gripper position an object is carried to: above the first test cube's
\* place
HoldPoints == {Vec(2000, 400, 0)}

\* values of dt, in ms: the frame loop's 0.016 and one beyond the clamp
HeldDtSamples == {16, 1000}

\* arm colliders: none, and a gripper base that overlaps whatever is at the
\* first test cube's place or carried above it
HeldColliderSamples == { << >>, <<Collider(Vec(2000, 350, 0), 250)>> }

NextHeld ==
    \/ \E id \in {objects[i].id : i \in DOMAIN objects} : attachToGripper(id)
    \/ \E p \in HoldPoints : updateAttachedObject(p)
    \/ releaseObject
    \/ \E dt \in HeldDtSamples, armColliders \in HeldColliderSamples :
          physicsUpdate(dt, armColliders)

SpecHeld == Init /\ [][NextHeld]_vars

\* C22: a step leaves the attached object and every static object as they
\* were: position, velocity and floor-contact flag (and everything else).
C22_SkippedUnchanged ==
    [][Stepped =>
         \A i \in DOMAIN objects :
            ((attachedObject # NoObject /\ objects[i].id = attachedObject)
               \/ objects[i].isStatic)
            => objects'[i] = objects[i]]_vars

\* C22 witness: a step with dt > 0 was taken with a collider overlapping the
\* attached object, which hangs in the air
C22_Witness ==
    /\ steps > 0 /\ lastStep.dt > 0
    /\ attachedObject # NoObject
    /\ \E i \in DOMAIN objects :
          /\ objects[i].id = attachedObject
          /\ objects[i].position[2] > objects[i].radius
          /\ \E k \in DOMAIN lastStep.armColliders :
                DistanceLess(objects[i].position, lastStep.armColliders[k].position,
                             objects[i].radius + lastStep.armColliders[k].radius)

----------------------------------------------------------------------------
(* Landing: objects are picked up, carried, released, and the frame loop    *)
(* keeps stepping the physics without arm colliders in reach                *)

\* object i is not in the gripper
Free(i) == attachedObject # objects[i].id

\* object i lies on the floor
Landed(i) == objects[i].position[2] = objects[i].radius /\ objects[i].velocity[2] = 0

\* gripper positions an object is released at, away from the test objects
LandingPoints == {Vec(500, 0, 500), Vec(500, 400, 500)}

\* values of dt, in ms: the frame loop's 0.016 and the clamp
LandingDtSamples == {16, 50}

\* ObjectManager.update(dt) with no arm colliders, any number of times
physicsUpdateFree(dt) ==
    /\ UNCHANGED appVars
    /\ objects' = PhysicsStep(objects, attachedObject, dt, << >>)
    /\ lastStep' = [dt |-> dt, armColliders |-> << >>]
    /\ lastResult' = NoResult
    /\ UNCHANGED <<nextId, attachedObject, armVars, levelVars, storeVars, moves,
                   frames, steps>>

\* the objects picked up are objects lying on the floor
NextLanding ==
    \/ \E id \in {objects[i].id : i \in {j \in DOMAIN objects : Landed(j)}} :
          attachToGripper(id)
    \/ \E p \in LandingPoints : updateAttachedObject(p)
    \/ releaseObject
    \/ \E dt \in LandingDtSamples : physicsUpdateFree(dt)

\* the frame loop reschedules itself: a physics step is always taken again
SpecLanding ==
    /\ Init
    /\ [][NextLanding]_vars
    /\ WF_vars(\E dt \in LandingDtSamples : physicsUpdateFree(dt))

\* C30: an object that is not held (in particular one just released, at any
\* height) reaches position.y = radius with velocity.y = 0 unless it is picked
\* up again first, and from then on it is at position.y = radius after every
\* step for as long as it is not picked up.
C30_Landing ==
    /\ \A i \in DOMAIN TestObjects : [](Free(i) => <>(Landed(i) \/ ~Free(i)))
    /\ [][\A i \in DOMAIN TestObjects :
             (Free(i) /\ Landed(i) /\ Free(i)') => Landed(i)']_vars

\* C30 witness: an object released in the air at a landing point lies on the
\* floor below it
C30_Witness ==
    /\ attachedObject = NoObject
    /\ \E i \in DOMAIN objects :
          /\ Landed(i)
          /\ objects[i].position[1] = 500 /\ objects[i].position[3] = 500
          /\ objects[i].onFloor

----------------------------------------------------------------------------
(* Claims about a failed level *)

\* update() has returned failed/timeout for the load that is current: the
\* level is active and its elapsed time, which only update() advances and
\* only loadLevel resets, is beyond the time limit
FailedLoad == currentLevel # NoLevel /\ isActive /\ TimeExceeded

\* C25: a frame's update() returns failed/timeout only with the elapsed time
\* beyond the limit; from then on every frame of the same load returns
\* failed/timeout again, the load stays failed until loadLevel or exitLevel is
\* called, and no step persists progress.
C25_FailedAbsorbing ==
    [][/\ (lastResult'.op = "animate" /\ lastResult'.status = "failed")
             => (FailedLoad' /\ lastResult'.reason = "timeout")
       /\ (FailedLoad /\ frames' = frames + 1)
             => (lastResult'.status = "failed" /\ lastResult'.reason = "timeout")
       /\ FailedLoad
             => /\ stored' = stored /\ saves' = saves
                /\ FailedLoad' \/ lastResult'.op \in {"loadLevel", "exitLevel"}]_vars

\* C25 witness: frames after the first timeout, with every target covered by a
\* qualifying object, still report failed and nothing was saved
C25_Witness ==
    /\ FailedLoad
    /\ lastResult.op = "animate" /\ lastResult.status = "failed"
    /\ frames >= 3 /\ saves = 0
    /\ \A i \in DOMAIN targetMeshes : Covered(targetMeshes[i])

----------------------------------------------------------------------------
(* The object registry: spawnObject, removeObject, clearAll, exportToJSON    *)
(* and importFromJSON, with objects picked up and levels loaded in between  *)

\* the largest nextId at which the registry still grows
MaxRegistryNextId == 6

\* removeObject(id): the registry after the call; attachedObject is not touched
removeObjectIn(objs, id) == SelectSeq(objs, LAMBDA o : o.id # id)

\* geometry.parameters.radius: SphereGeometry only
GeomRadius(o) == IF o.type = "sphere" THEN o.size \div 2 ELSE 0

\* one entry of exportToJSON(): size is parameters.width || parameters.radius,
\* which is undefined (0 here) for a CylinderGeometry
ExportEntry(o) ==
    [id |-> o.id, type |-> o.type, position |-> o.position,
     color |-> ColorHex(o.color), size |-> JsOr(GeomWidth(o), GeomRadius(o))]

\* exportToJSON(): one entry per object, in registry order
exportToJSON(objs) == [k \in DOMAIN objs |-> ExportEntry(objs[k])]

\* the size spawnObject works with: its default 0.3 replaces an undefined one
SpawnSize(size) == IF size = 0 THEN 300 ELSE size

\* importFromJSON's spawn loop over the first k entries, from an empty
\* registry, ids from nid on
RECURSIVE ImportEntries(_, _, _)
ImportEntries(data, k, nid) ==
    IF k = 0 THEN << >>
    ELSE spawnObject(ImportEntries(data, k - 1, nid), nid + k - 1, data[k].type,
                     data[k].position, data[k].color, SpawnSize(data[k].size))

\* objects spawned by hand: a cube, a sphere and a cylinder
SpawnSamples ==
    { [type |-> "cube", position |-> Vec(1000, 150, 1000), color |-> "#FF6B35", size |-> 300],
      [type |-> "sphere", position |-> Vec(1000, 100, -1000), color |-> "#ff4757", size |-> 200],
      [type |-> "cylinder", position |-> Vec(-1000, 200, 1000), color |-> "#ffa502", size |-> 400] }

\* a scene file: one cube
SceneSamples ==
    { <<[id |-> 1, type |-> "cube", position |-> Vec(500, 150, 500),
         color |-> "#ff6b35", size |-> 300]>> }

\* spawnObject(type, position, color, size)
spawnObjectCall(e) ==
    /\ UNCHANGED appVars
    /\ nextId <= MaxRegistryNextId
    /\ objects' = spawnObject(objects, nextId, e.type, e.position, e.color,
                              SpawnSize(e.size))
    /\ nextId' = nextId + 1
    /\ lastResult' = Result("spawnObject", nextId, "", "", 0, 0)
    /\ UNCHANGED <<attachedObject, armVars, stepVars, levelVars, storeVars, moves>>

\* removeObject(id)
removeObject(id) ==
    /\ UNCHANGED appVars
    /\ objects' = removeObjectIn(objects, id)
    /\ lastResult' = Result("removeObject", id, "", "", 0, 0)
    /\ UNCHANGED <<nextId, attachedObject, armVars, stepVars, levelVars, storeVars,
                   moves>>

\* clearAll()
clearAll ==
    /\ UNCHANGED appVars
    /\ objects' = << >>
    /\ attachedObject' = NoObject
    /\ lastResult' = Result("clearAll", 0, "", "", 0, 0)
    /\ UNCHANGED <<nextId, armVars, stepVars, levelVars, storeVars, moves>>

\* importFromJSON(data): clearAll(), then one spawnObject per entry
importFromJSON(data, what) ==
    /\ UNCHANGED appVars
    /\ nextId + Len(data) <= MaxRegistryNextId + 1
    /\ objects' = ImportEntries(data, Len(data), nextId)
    /\ nextId' = nextId + Len(data)
    /\ attachedObject' = NoObject
    /\ lastResult' = Result("importFromJSON", 0, what, "", 0, 0)
    /\ UNCHANGED <<armVars, stepVars, levelVars, storeVars, moves>>

\* the levels loaded while the registry is edited
RegistryLoadIds == {1, 3}

NextRegistry ==
    \/ \E e \in SpawnSamples : spawnObjectCall(e)
    \/ \E id \in 1 .. MaxRegistryNextId : removeObject(id)
    \/ clearAll
    \/ \E data \in SceneSamples : importFromJSON(data, "scene")
    \/ importFromJSON(exportToJSON(objects), "exported")
    \/ \E id \in {objects[i].id : i \in DOMAIN objects} : attachToGripper(id)
    \/ releaseObject
    \/ \E id \in RegistryLoadIds : loadLevelBounded(id, MaxRegistryNextId)
    \/ exitLevel

SpecRegistry == Init /\ [][NextRegistry]_vars

\* C26: the attached-object reference is empty or refers to an object that is
\* in the registry.
C26_AttachedIsLive ==
    attachedObject = NoObject \/ IndexOf(objects, attachedObject) # 0

\* C29: importFromJSON(exportToJSON()) leaves a registry with as many objects
\* as before, in the same order, each with the type, position, color and size
\* (hence collision radius) it had.
C29_SceneRoundTrip ==
    [][(lastResult'.op = "importFromJSON" /\ lastResult'.status = "exported")
         => /\ Len(objects') = Len(objects)
            /\ \A k \in DOMAIN objects :
                  /\ objects'[k].type = objects[k].type
                  /\ objects'[k].position = objects[k].position
                  /\ ColorHex(objects'[k].color) = ColorHex(objects[k].color)
                  /\ objects'[k].size = objects[k].size
                  /\ objects'[k].radius = objects[k].radius]_vars

----------------------------------------------------------------------------
(* The App: navigation between the screens, and the callback that           *)
(* handleLevelCompletion schedules 500 ms after a 'levelCompleted' event.   *)
(* While App.robotSimulator is null the simulator's variables hold what the *)
(* next instance starts with.                                               *)

\* the largest number of startLevel calls
MaxLoads == 2

\* showHome(): the level is exited, the simulator disposed and forgotten
showHomeEffect ==
    /\ robotSimulator' = NoSimulator
    /\ objects' = TestObjects
    /\ nextId' = Len(TestObjects) + 1
    /\ attachedObject' = NoObject
    /\ gripperAngle' = 0
    /\ gripperPos' = GripperHome
    /\ currentLevel' = NoLevel
    /\ isActive' = FALSE
    /\ elapsedTime' = 0
    /\ targetMeshes' = << >>
    /\ targetStates' = << >>
    /\ obstacleMeshes' = << >>
    /\ moves' = 0

\* App.showHome(), from the simulator screen's back button
showHome ==
    /\ activeScreen = "simulatorScreen"
    /\ showHomeEffect
    /\ activeScreen' = "homeScreen"
    /\ lastResult' = Result("showHome", 0, "", "", 0, 0)
    /\ UNCHANGED <<stepVars, storeVars, timers, loads>>

\* App.showLevels(), from the home screen's button
showLevels ==
    /\ activeScreen = "homeScreen"
    /\ activeScreen' = "levelScreen"
    /\ lastResult' = Result("showLevels", 0, "", "", 0, 0)
    /\ UNCHANGED <<omVars, armVars, levelVars, stepVars, storeVars, moves,
                   robotSimulator, timers, loads>>

\* App.startLevel(levelId), from the card of an unlocked level:
\* initializeSimulator() builds a simulator if there is none, then loadLevel
\* (the alert of the level's instruction is not modelled)
startLevel(id) ==
    /\ activeScreen = "levelScreen"
    /\ Includes(loadAll(stored).progress.unlockedLevels, id)
    /\ loads < MaxLoads
    /\ robotSimulator' = IF robotSimulator = NoSimulator THEN loads + 1
                         ELSE robotSimulator
    /\ Assign(loadLevelOutcome(id).st)
    /\ moves' = IF loadLevelOutcome(id).ok THEN 0 ELSE moves
    /\ activeScreen' = "simulatorScreen"
    /\ loads' = loads + 1
    /\ lastResult' = Result("startLevel", id, "", "", 0, 0)
    /\ UNCHANGED <<armVars, stepVars, storeVars, timers>>

\* the callback of handleLevelCompletion, tm, runs: confirm() is answered, and
\* either way showHome() is called; on OK showLevels() follows
completionCallback(tm, ok) ==
    /\ tm \in timers
    /\ timers' = timers \ {tm}
    /\ showHomeEffect
    /\ activeScreen' = IF ok THEN "levelScreen" ELSE "homeScreen"
    /\ lastResult' = Result("completionCallback", tm.load, IF ok THEN "ok" ELSE "cancel",
                            "", 0, 0)
    /\ UNCHANGED <<stepVars, storeVars, loads>>

\* the App after its constructor: home screen, no simulator
InitApp ==
    /\ NewSimulator
    /\ stored = << >>
    /\ robotSimulator = NoSimulator
    /\ activeScreen = "homeScreen"
    /\ timers = {}
    /\ loads = 0

NextApp ==
    \/ showLevels
    \/ \E id \in 0 .. 10 : startLevel(id)
    \/ showHome
    \/ \E tm \in timers, ok \in BOOLEAN : completionCallback(tm, ok)
    \/ /\ robotSimulator # NoSimulator
       /\ \/ \E t \in TimeSamples(currentLevel) : animate(t)
          \/ \E id \in {objects[i].id : i \in DOMAIN objects} : attachToGripper(id)
          \/ \E p \in CarryPoints(targetMeshes) : updateAttachedObject(p)
          \/ releaseObject

SpecApp == InitApp /\ [][NextApp]_vars

\* C28: when the callback of a completion runs while a level started after
\* that completion is loaded, the level is not exited and its simulator is
\* not disposed.
C28_CallbackEndsOwnLevel ==
    [][\A tm \in timers \ timers' :
          (robotSimulator # NoSimulator /\ currentLevel # NoLevel /\ tm.load # loads)
          => /\ robotSimulator' = robotSimulator
             /\ currentLevel' = currentLevel
             /\ isActive' = isActive]_vars

====
